---- MODULE Spec2Model ----
(***************************************************************************)
(* Allele reconciliation and per-call data remapping of                    *)
(* variant/src/variant_operations.cc: merge_reference_allele,              *)
(* merge_alt_alleles, remap_GT_field, remap_data_based_on_alleles,         *)
(* remap_data_based_on_genotype, do_dummy_genotyping and the operators     *)
(* SingleVariantOperatorBase / GA4GHOperator.                              *)
(*                                                                         *)
(* Strings are sequences of one-character strings; vectors that the code   *)
(* indexes from 0 are functions on 0..n-1, except the merged alt list and  *)
(* a call's ALT list, which are sequences (ALT k is allele index k).       *)
(***************************************************************************)
EXTENDS Integers, Sequences, FiniteSets, TLC

\* ------------------------------------------------------------------ bounds
\* number of call slots of a variant (valid or not)
MaxCalls == 2
\* longest ALT list of one call
MaxAlts == 2
\* positions one operator object processes in a row (SpecSeq)
MaxPositions == 2

\* ------------------------------------------------------- program constants
\* second argument of resize_luts_if_needed in SingleVariantOperatorBase::operate
DefaultNumColumns == 10
\* missing value handed to the remappers for int fields
bcf_int32_missing == (-2147483647) - 1
\* the LUT's "no mapping" entry
lut_missing_value == -1

\* --------------------------------------------------------------- strings
g_non_reference_allele == <<"&">>
N_REF == <<"N">>

IS_NON_REF_ALLELE(allele) == allele = g_non_reference_allele

CHECK_IN_THE_MIDDLE_REF(ref) == ref = N_REF

\* std::string::find(shorter) == 0 on longer
IsPrefix(p, s) ==
  /\ Len(p) <= Len(s)
  /\ \A i \in 1..Len(p) : p[i] = s[i]

\* str.substr(pos) with a 0-based pos
Suffix(s, pos) == SubSeq(s, pos + 1, Len(s))

Max(a, b) == IF a > b THEN a ELSE b

\* ------------------------------------------------ CombineAllelesLUT (lut.h)
\* rows are calls, columns allele indices; both directions have the same shape
MissingRow(ncols) == [k \in 0..(ncols - 1) |-> lut_missing_value]

NewLUT(nrows, ncols) ==
  [ num_rows |-> nrows, num_cols |-> ncols,
    i2m |-> [r \in 0..(nrows - 1) |-> MissingRow(ncols)],
    m2i |-> [r \in 0..(nrows - 1) |-> MissingRow(ncols)] ]

reset_luts(lut) == NewLUT(lut.num_rows, lut.num_cols)

GrowMatrix(m, orows, ocols, nrows, ncols) ==
  [r \in 0..(nrows - 1) |->
     [k \in 0..(ncols - 1) |->
        IF r < orows /\ k < ocols THEN m[r][k] ELSE lut_missing_value]]

\* grows (never shrinks) rows and columns, keeping what was written
resize_luts_if_needed(lut, nrows, ncols) ==
  IF nrows <= lut.num_rows /\ ncols <= lut.num_cols THEN lut
  ELSE LET nr == Max(lut.num_rows, nrows)
           nc == Max(lut.num_cols, ncols)
       IN  [ num_rows |-> nr, num_cols |-> nc,
             i2m |-> GrowMatrix(lut.i2m, lut.num_rows, lut.num_cols, nr, nc),
             m2i |-> GrowMatrix(lut.m2i, lut.num_rows, lut.num_cols, nr, nc) ]

InLUT(lut, row, col) == row >= 0 /\ row < lut.num_rows /\ col >= 0 /\ col < lut.num_cols

add_input_merged_idx_pair(lut, row, input_idx, merged_idx) ==
  [lut EXCEPT !.i2m[row][input_idx] = merged_idx,
              !.m2i[row][merged_idx] = input_idx]

get_merged_idx_for_input(lut, row, input_idx) == lut.i2m[row][input_idx]

get_input_idx_for_merged(lut, row, merged_idx) == lut.m2i[row][merged_idx]

is_missing_value(v) == v = lut_missing_value

\* htslib: index of the unordered genotype {a,b}
bcf_alleles2gt(a, b) ==
  IF a > b THEN (a * (a + 1)) \div 2 + b ELSE (b * (b + 1)) \div 2 + a

\* ------------------------------------------------- merge_reference_allele
\* MergeRefStep with the "N" replacement of line 72 left out: a longer
\* reference is always appended to what is there
MergeRefStep_AlwaysAppends(st, curr_ref, debug) ==
  IF Len(curr_ref) > st.len
  THEN [ merged |-> st.merged \o Suffix(curr_ref, st.len), len |-> Len(curr_ref),
         threw |-> FALSE ]
  ELSE IF CHECK_IN_THE_MIDDLE_REF(st.merged) /\ ~CHECK_IN_THE_MIDDLE_REF(curr_ref)
  THEN [st EXCEPT !.merged = curr_ref]
  ELSE st

\* one iteration of the loop over valid calls; st = [merged, len, threw]
MergeRefStep(st, curr_ref, debug) ==
  LET curr_ref_length == Len(curr_ref)
      is_curr_ref_longer == curr_ref_length > st.len
      longer_ref == IF is_curr_ref_longer THEN curr_ref ELSE st.merged
      shorter_ref == IF is_curr_ref_longer THEN st.merged ELSE curr_ref
  IN  IF /\ debug
         /\ ~CHECK_IN_THE_MIDDLE_REF(st.merged)
         /\ ~CHECK_IN_THE_MIDDLE_REF(curr_ref)
         /\ ~IsPrefix(shorter_ref, longer_ref)
      THEN [st EXCEPT !.threw = TRUE]
      ELSE IF is_curr_ref_longer
      THEN [ merged |-> IF st.len > 0 /\ CHECK_IN_THE_MIDDLE_REF(st.merged)
                        THEN curr_ref
                        ELSE st.merged \o Suffix(curr_ref, st.len),
             len |-> curr_ref_length,
             threw |-> FALSE ]
      ELSE IF CHECK_IN_THE_MIDDLE_REF(st.merged) /\ ~CHECK_IN_THE_MIDDLE_REF(curr_ref)
      THEN [st EXCEPT !.merged = curr_ref]
      ELSE st

RECURSIVE MergeRefLoop(_, _, _, _)
MergeRefLoop(st, refs, k, debug) ==
  IF k > Len(refs) \/ st.threw THEN st
  ELSE MergeRefLoop(MergeRefStep(st, refs[k], debug), refs, k + 1, debug)

\* refs: the REF strings of the valid calls, in iteration order
merge_reference_allele(refs, merged_reference_allele, debug) ==
  MergeRefLoop([merged |-> merged_reference_allele,
                len |-> Len(merged_reference_allele),
                threw |-> FALSE], refs, 1, debug)

\* ------------------------------------------------------ merge_alt_alleles
\* PadAllele appending the merged reference from its start (offset dropped)
PadAllele_WholeReference(allele, merged_reference_allele, curr_reference_length) ==
  allele \o merged_reference_allele

\* copy_allele: the allele followed by the merged reference beyond the call's REF
PadAllele(allele, merged_reference_allele, curr_reference_length) ==
  allele \o Suffix(merged_reference_allele, curr_reference_length)

\* one add_input_merged_idx_pair call as merge_alt_alleles makes it, with the
\* table's column capacity at that moment
PairCall(lut, row, input_idx, merged_idx) ==
  [ row |-> row, input_idx |-> input_idx, merged_idx |-> merged_idx, num_cols |-> lut.num_cols ]

\* add_input_merged_idx_pair on the running state: each of the two entries is
\* written when its index is inside the table; an index outside it is recorded
AddPair(st, row, input_idx, merged_idx) ==
  LET in_input == InLUT(st.lut, row, input_idx)
      in_merged == InLUT(st.lut, row, merged_idx)
  IN  [st EXCEPT
         !.lut = IF in_input /\ in_merged
                 THEN add_input_merged_idx_pair(st.lut, row, input_idx, merged_idx)
                 ELSE IF in_merged THEN [st.lut EXCEPT !.m2i[row][merged_idx] = input_idx]
                 ELSE IF in_input THEN [st.lut EXCEPT !.i2m[row][input_idx] = merged_idx]
                 ELSE st.lut,
         !.adds = Append(st.adds, PairCall(st.lut, row, input_idx, merged_idx)),
         !.oob = st.oob \/ ~(in_input /\ in_merged)]

\* MergeAltAllele without the seen_alleles lookup: every allele is new
MergeAltAllele_NoLookup(st, row, curr_reference_length, merged_reference_allele, allele, input_allele_idx) ==
  IF IS_NON_REF_ALLELE(allele)
  THEN [st EXCEPT !.np[row] = input_allele_idx, !.nonref = TRUE]
  ELSE
    LET key == IF curr_reference_length < Len(merged_reference_allele)
               THEN PadAllele(allele, merged_reference_allele, curr_reference_length)
               ELSE allele
        grown == [st EXCEPT
                    !.lut = resize_luts_if_needed(st.lut, st.lut.num_rows, st.midx + 1)]
        added == AddPair(grown, row, input_allele_idx, st.midx)
    IN  [added EXCEPT !.merged = Append(st.merged, key), !.midx = st.midx + 1]

\* body of the loop over one call's ALT list (input_allele_idx starts at 1)
MergeAltAllele(st, row, curr_reference_length, merged_reference_allele, allele, input_allele_idx) ==
  IF IS_NON_REF_ALLELE(allele)
  THEN [st EXCEPT !.np[row] = input_allele_idx, !.nonref = TRUE]
  ELSE
    LET is_suffix_needed == curr_reference_length < Len(merged_reference_allele)
        key == IF is_suffix_needed
               THEN PadAllele(allele, merged_reference_allele, curr_reference_length)
               ELSE allele
    IN  IF key \notin DOMAIN st.seen
        THEN LET grown == [st EXCEPT
                             !.seen = (key :> st.midx) @@ st.seen,
                             !.lut = resize_luts_if_needed(st.lut, st.lut.num_rows, st.midx + 1)]
                 added == AddPair(grown, row, input_allele_idx, st.midx)
             IN  [added EXCEPT !.merged = Append(st.merged, key), !.midx = st.midx + 1]
        ELSE AddPair(st, row, input_allele_idx, st.seen[key])

RECURSIVE MergeAltAlleleLoop(_, _, _, _, _, _)
MergeAltAlleleLoop(st, row, curr_reference_length, merged_reference_allele, alts, i) ==
  IF i > Len(alts) THEN st
  ELSE MergeAltAlleleLoop(
         MergeAltAllele(st, row, curr_reference_length, merged_reference_allele, alts[i], i),
         row, curr_reference_length, merged_reference_allele, alts, i + 1)

\* body of the loop over valid calls: 0 -> 0 for the reference, then the ALT list
MergeAltCall(st, row, call, merged_reference_allele) ==
  MergeAltAlleleLoop(AddPair(st, row, 0, 0), row, Len(call.REF),
                     merged_reference_allele, call.ALT, 1)

RECURSIVE MergeAltCallLoop(_, _, _, _)
MergeAltCallLoop(st, calls, k, merged_reference_allele) ==
  IF k > Len(calls) THEN st
  ELSE MergeAltCallLoop(
         IF calls[k].valid THEN MergeAltCall(st, k - 1, calls[k], merged_reference_allele)
         ELSE st,
         calls, k + 1, merged_reference_allele)

\* second loop over valid calls: the mappings of the NON_REF allele
RECURSIVE MergeAltNonRefLoop(_, _, _, _)
MergeAltNonRefLoop(st, calls, k, non_reference_allele_idx) ==
  IF k > Len(calls) THEN st
  ELSE MergeAltNonRefLoop(
         IF calls[k].valid /\ st.np[k - 1] >= 0
         THEN AddPair(st, k - 1, st.np[k - 1], non_reference_allele_idx)
         ELSE st,
         calls, k + 1, non_reference_allele_idx)

\* MergeAltNonRef taking size()-1 for the index of NON_REF
MergeAltNonRef_IndexOffByOne(st, calls) ==
  LET pushed == Append(st.merged, g_non_reference_allele)
      grown == [st EXCEPT
                  !.merged = pushed,
                  !.lut = resize_luts_if_needed(st.lut, st.lut.num_rows, Len(pushed) + 1)]
  IN  MergeAltNonRefLoop(grown, calls, 1, Len(pushed) - 1)

\* NON_REF goes last: appended after every call was read
MergeAltNonRef(st, calls) ==
  LET pushed == Append(st.merged, g_non_reference_allele)
      non_reference_allele_idx == Len(pushed)
      grown == [st EXCEPT
                  !.merged = pushed,
                  !.lut = resize_luts_if_needed(st.lut, st.lut.num_rows,
                                                non_reference_allele_idx + 1)]
  IN  MergeAltNonRefLoop(grown, calls, 1, non_reference_allele_idx)

\* merge_alt_alleles without the reset_luts call on entry
merge_alt_alleles_NoReset(calls, merged_reference_allele, alleles_LUT) ==
  LET st0 == [ seen |-> (g_non_reference_allele :> -1),
               merged |-> << >>,
               lut |-> alleles_LUT,
               np |-> [r \in 0..(Len(calls) - 1) |-> -1],
               midx |-> 1,
               nonref |-> FALSE,
               adds |-> << >>,
               oob |-> FALSE ]
      st1 == MergeAltCallLoop(st0, calls, 1, merged_reference_allele)
  IN  IF st1.nonref THEN MergeAltNonRef(st1, calls) ELSE st1

\* result: [merged (the returned vector), lut, nonref (NON_REF_exists), oob, ...]
merge_alt_alleles(calls, merged_reference_allele, alleles_LUT) ==
  LET st0 == [ seen |-> (g_non_reference_allele :> -1),
               merged |-> << >>,
               lut |-> reset_luts(alleles_LUT),
               np |-> [r \in 0..(Len(calls) - 1) |-> -1],
               midx |-> 1,
               nonref |-> FALSE,
               adds |-> << >>,
               oob |-> FALSE ]
      st1 == MergeAltCallLoop(st0, calls, 1, merged_reference_allele)
  IN  IF st1.nonref THEN MergeAltNonRef(st1, calls) ELSE st1

\* --------------------------------------------------------- remap_GT_field
\* st = [out, failed]; the assertion only exists in builds with assertions
RECURSIVE RemapGTLoop(_, _, _, _, _, _)
RemapGTLoop(st, input_GT, alleles_LUT, input_call_idx, i, asserts) ==
  IF i > Len(input_GT) \/ st.failed THEN st
  ELSE LET output_allele_idx ==
             get_merged_idx_for_input(alleles_LUT, input_call_idx, input_GT[i])
       IN  RemapGTLoop(
             IF asserts /\ is_missing_value(output_allele_idx)
             THEN [st EXCEPT !.failed = TRUE]
             ELSE [st EXCEPT !.out[i] = output_allele_idx],
             input_GT, alleles_LUT, input_call_idx, i + 1, asserts)

remap_GT_field(input_GT, output_GT, alleles_LUT, input_call_idx, asserts) ==
  RemapGTLoop([out |-> output_GT, failed |-> FALSE],
              input_GT, alleles_LUT, input_call_idx, 1, asserts)

\* ------------------------------------------------------- remapped_data
\* PutValue that also counts the call as one with valid data
PutValue_CountsMissing(st, slot, value) ==
  IF slot \in DOMAIN st.dest
  THEN [st EXCEPT !.dest[slot] = value,
                  !.log = Append(st.log, [slot |-> slot, value |-> value]),
                  !.counts[slot] = st.counts[slot] + 1]
  ELSE [st EXCEPT !.overrun = TRUE]

\* a write through put_address: st = [dest, counts, log, overrun]; put_address
\* asserts that the slot exists, a build without assertions writes past the end
PutValue(st, slot, value) ==
  IF slot \in DOMAIN st.dest
  THEN [st EXCEPT !.dest[slot] = value,
                  !.log = Append(st.log, [slot |-> slot, value |-> value])]
  ELSE [st EXCEPT !.overrun = TRUE]

\* a copied local value also counts the call in num_calls_with_valid_data
PutData(st, slot, value) ==
  IF slot \in DOMAIN st.dest
  THEN [st EXCEPT !.dest[slot] = value,
                  !.log = Append(st.log, [slot |-> slot, value |-> value]),
                  !.counts[slot] = st.counts[slot] + 1]
  ELSE [st EXCEPT !.overrun = TRUE]

\* the failed assertion ends the process
Aborted(st, asserts) == st.overrun /\ asserts

\* index of NON_REF in the input call, read back from the table
InputNonRefIdx(alleles_LUT, input_call_idx, num_merged_alleles, NON_REF_exists) ==
  IF NON_REF_exists
  THEN get_input_idx_for_merged(alleles_LUT, input_call_idx, num_merged_alleles - 1)
  ELSE lut_missing_value

\* ---------------------------------------------- remap_data_based_on_alleles
\* RemapAllelesSlot that never falls back to the call's NON_REF value
RemapAllelesSlot_NoFallback(st, input_data, input_call_idx, alleles_LUT, input_non_reference_allele_idx, alt_alleles_only, missing_value, j) ==
  LET allele_j == IF alt_alleles_only THEN j + 1 ELSE j
      mapped == get_input_idx_for_merged(alleles_LUT, input_call_idx, allele_j)
      input_j == IF alt_alleles_only THEN mapped - 1 ELSE mapped
  IN  IF is_missing_value(mapped)
      THEN PutValue(st, j, missing_value)
      ELSE PutData(st, j, input_data[input_j])

\* loop body; the assertion "ALT only => input_j_allele > 0" cannot fail, since
\* merged index j+1 >= 1 is only ever paired with a local index >= 1
RemapAllelesSlot(st, input_data, input_call_idx, alleles_LUT, input_non_reference_allele_idx, alt_alleles_only, missing_value, j) ==
  LET allele_j == IF alt_alleles_only THEN j + 1 ELSE j
      mapped == get_input_idx_for_merged(alleles_LUT, input_call_idx, allele_j)
      input_j_allele == IF is_missing_value(mapped)
                        THEN input_non_reference_allele_idx ELSE mapped
      input_j == IF alt_alleles_only THEN input_j_allele - 1 ELSE input_j_allele
  IN  IF is_missing_value(mapped) /\ is_missing_value(input_non_reference_allele_idx)
      THEN PutValue(st, j, missing_value)
      ELSE PutData(st, j, input_data[input_j])

RECURSIVE RemapAllelesLoop(_, _, _, _, _, _, _, _, _, _)
RemapAllelesLoop(st, input_data, input_call_idx, alleles_LUT, input_non_reference_allele_idx, alt_alleles_only, missing_value, j, length, asserts) ==
  IF Aborted(st, asserts) \/ j >= length THEN st
  ELSE RemapAllelesLoop(
         RemapAllelesSlot(st, input_data, input_call_idx, alleles_LUT,
                          input_non_reference_allele_idx, alt_alleles_only, missing_value, j),
         input_data, input_call_idx, alleles_LUT, input_non_reference_allele_idx,
         alt_alleles_only, missing_value, j + 1, length, asserts)

\* st carries the destination (remapped_data) and num_calls_with_valid_data
remap_data_based_on_alleles(st, input_data, input_call_idx, alleles_LUT, num_merged_alleles, NON_REF_exists, alt_alleles_only, missing_value, asserts) ==
  RemapAllelesLoop(st, input_data, input_call_idx, alleles_LUT,
                   InputNonRefIdx(alleles_LUT, input_call_idx, num_merged_alleles, NON_REF_exists),
                   alt_alleles_only, missing_value, 0,
                   IF alt_alleles_only THEN num_merged_alleles - 1 ELSE num_merged_alleles,
                   asserts)

\* --------------------------------------------- remap_data_based_on_genotype
\* RemapGenotypeSlot reading the local pair in the order given, not canonically
RemapGenotypeSlot_UnorderedPair(st, input_data, input_call_idx, alleles_LUT, input_non_reference_allele_idx, missing_value, allele_j, input_j_allele, allele_k) ==
  LET gt_idx == bcf_alleles2gt(allele_j, allele_k)
      mapped == get_input_idx_for_merged(alleles_LUT, input_call_idx, allele_k)
      input_k_allele == IF is_missing_value(mapped)
                        THEN input_non_reference_allele_idx ELSE mapped
  IN  IF is_missing_value(mapped) /\ is_missing_value(input_non_reference_allele_idx)
      THEN PutValue(st, gt_idx, missing_value)
      ELSE PutData(st, gt_idx,
                   input_data[input_j_allele + (input_k_allele * (input_k_allele + 1)) \div 2])

\* inner loop body: allele_j resolved to input_j_allele, allele_k still to resolve
RemapGenotypeSlot(st, input_data, input_call_idx, alleles_LUT, input_non_reference_allele_idx, missing_value, allele_j, input_j_allele, allele_k) ==
  LET gt_idx == bcf_alleles2gt(allele_j, allele_k)
      mapped == get_input_idx_for_merged(alleles_LUT, input_call_idx, allele_k)
      input_k_allele == IF is_missing_value(mapped)
                        THEN input_non_reference_allele_idx ELSE mapped
  IN  IF is_missing_value(mapped) /\ is_missing_value(input_non_reference_allele_idx)
      THEN PutValue(st, gt_idx, missing_value)
      ELSE PutData(st, gt_idx, input_data[bcf_alleles2gt(input_j_allele, input_k_allele)])

RECURSIVE RemapGenotypeInner(_, _, _, _, _, _, _, _, _, _, _)
RemapGenotypeInner(st, input_data, input_call_idx, alleles_LUT, input_non_reference_allele_idx, missing_value, allele_j, input_j_allele, allele_k, num_merged_alleles, asserts) ==
  IF Aborted(st, asserts) \/ allele_k >= num_merged_alleles THEN st
  ELSE RemapGenotypeInner(
         RemapGenotypeSlot(st, input_data, input_call_idx, alleles_LUT,
                           input_non_reference_allele_idx, missing_value,
                           allele_j, input_j_allele, allele_k),
         input_data, input_call_idx, alleles_LUT, input_non_reference_allele_idx,
         missing_value, allele_j, input_j_allele, allele_k + 1, num_merged_alleles, asserts)

\* allele_j has no mapping and the call has no NON_REF: its whole row is missing
RECURSIVE RemapGenotypeFill(_, _, _, _, _, _)
RemapGenotypeFill(st, missing_value, allele_j, allele_k, num_merged_alleles, asserts) ==
  IF Aborted(st, asserts) \/ allele_k >= num_merged_alleles THEN st
  ELSE RemapGenotypeFill(PutValue(st, bcf_alleles2gt(allele_j, allele_k), missing_value),
                         missing_value, allele_j, allele_k + 1, num_merged_alleles, asserts)

\* body of the outer loop over allele_j
RemapGenotypeRow(st, input_data, input_call_idx, alleles_LUT, input_non_reference_allele_idx, missing_value, allele_j, num_merged_alleles, asserts) ==
  LET mapped == get_input_idx_for_merged(alleles_LUT, input_call_idx, allele_j)
  IN  IF is_missing_value(mapped) /\ is_missing_value(input_non_reference_allele_idx)
      THEN RemapGenotypeFill(st, missing_value, allele_j, allele_j, num_merged_alleles, asserts)
      ELSE RemapGenotypeInner(st, input_data, input_call_idx, alleles_LUT,
             input_non_reference_allele_idx, missing_value, allele_j,
             IF is_missing_value(mapped) THEN input_non_reference_allele_idx ELSE mapped,
             allele_j, num_merged_alleles, asserts)

RECURSIVE RemapGenotypeOuter(_, _, _, _, _, _, _, _, _)
RemapGenotypeOuter(st, input_data, input_call_idx, alleles_LUT, input_non_reference_allele_idx, missing_value, allele_j, num_merged_alleles, asserts) ==
  IF Aborted(st, asserts) \/ allele_j >= num_merged_alleles THEN st
  ELSE RemapGenotypeOuter(
         RemapGenotypeRow(st, input_data, input_call_idx, alleles_LUT,
                          input_non_reference_allele_idx, missing_value, allele_j,
                          num_merged_alleles, asserts),
         input_data, input_call_idx, alleles_LUT, input_non_reference_allele_idx,
         missing_value, allele_j + 1, num_merged_alleles, asserts)

remap_data_based_on_genotype(st, input_data, input_call_idx, alleles_LUT, num_merged_alleles, NON_REF_exists, missing_value, asserts) ==
  RemapGenotypeOuter(st, input_data, input_call_idx, alleles_LUT,
                     InputNonRefIdx(alleles_LUT, input_call_idx, num_merged_alleles, NON_REF_exists),
                     missing_value, 0, num_merged_alleles, asserts)

\* ------------------------------------------------------------------ inputs
Refs == { <<"T">>, <<"T", "G">>, <<"A">> }
RefsOfOneGenome == { <<"T">>, <<"T", "G">> }
AltAlleles == { <<"G">>, <<"G", "G">>, g_non_reference_allele }

RECURSIVE SeqsUpTo(_, _)
SeqsUpTo(S, n) ==
  IF n = 0 THEN { << >> }
  ELSE LET shorter == SeqsUpTo(S, n - 1)
       IN  shorter \cup { Append(q, x) : q \in { t \in shorter : Len(t) = n - 1 }, x \in S }

\* ALT lists as a VCF record holds them: no allele is listed twice
AltLists ==
  { q \in SeqsUpTo(AltAlleles, MaxAlts) :
      \A i, j \in 1..Len(q) : i # j => q[i] # q[j] }

InvalidCall == [valid |-> FALSE, column_begin |-> 0, REF |-> << >>, ALT |-> << >>]

\* calls that differ in start and REF (REFs of different genomes included)
RefCalls(pos) ==
  { [valid |-> TRUE, column_begin |-> b, REF |-> r, ALT |-> a] :
      b \in {pos - 1, pos}, r \in Refs, a \in { << >>, << <<"G">> >> } }

\* calls that differ in their ALT lists
AltCalls(pos) ==
  { [valid |-> TRUE, column_begin |-> pos, REF |-> r, ALT |-> a] :
      r \in RefsOfOneGenome, a \in AltLists }

Variants(pos) ==
  { [column_begin |-> pos, calls |-> c] :
      c \in [1..MaxCalls -> RefCalls(pos) \cup {InvalidCall}]
            \cup [1..MaxCalls -> AltCalls(pos) \cup {InvalidCall}] }

\* the variants of a run over several positions: one to MaxCalls calls each;
\* WideCall lists more ALT alleles than the table has columns to start with
WideAlts == [i \in 1..DefaultNumColumns |-> [j \in 1..i |-> "G"]]
WideCall(pos) == [valid |-> TRUE, column_begin |-> pos, REF |-> <<"T">>, ALT |-> WideAlts]
\* the placeholder listed first, then one ALT allele fewer than the table has
\* columns to start with: the last one has local index DefaultNumColumns
NonRefFirstAlts ==
  [i \in 1..DefaultNumColumns |->
     IF i = 1 THEN g_non_reference_allele ELSE WideAlts[i - 1]]
NonRefFirstCall(pos) == [valid |-> TRUE, column_begin |-> pos, REF |-> <<"T">>, ALT |-> NonRefFirstAlts]
\* the same ALT alleles without the placeholder
NarrowCall(pos) == [valid |-> TRUE, column_begin |-> pos, REF |-> <<"T">>, ALT |-> Tail(NonRefFirstAlts)]
SeqCalls(pos) ==
  { [valid |-> TRUE, column_begin |-> pos, REF |-> <<"T">>, ALT |-> << <<"G">> >>],
    [valid |-> TRUE, column_begin |-> pos, REF |-> <<"T", "G">>,
     ALT |-> << <<"G", "G">>, g_non_reference_allele >>],
    [valid |-> TRUE, column_begin |-> pos - 1, REF |-> <<"A">>,
     ALT |-> << g_non_reference_allele, <<"G">> >>] }
SeqVariants(pos) ==
  { [column_begin |-> pos, calls |-> c] :
      c \in UNION { [1..n -> SeqCalls(pos)] : n \in 1..MaxCalls } }
  \cup { [column_begin |-> pos, calls |-> << WideCall(pos) >>],
         [column_begin |-> pos, calls |-> << NonRefFirstCall(pos) >>],
         [column_begin |-> pos, calls |-> << NarrowCall(pos), NonRefFirstCall(pos) >>] }

\* the queried fields: length descriptor (R: one value per allele, A: per ALT
\* allele, G: per genotype, GT: the genotype call) and element type
Field(kind, type) == [kind |-> kind, type |-> type]
BaseQuery == << Field("R", "int"), Field("A", "int"), Field("G", "int"), Field("GT", "int") >>
QueryConfigs ==
  { BaseQuery } \cup
  { [BaseQuery EXCEPT ![f].type = "unhandled"] : f \in 1..3 }
GTInputs == { <<0, 1>>, <<1, 2>> }
\* what one GA4GHOperator::operate call is given besides the variant
QueryRuns ==
  { <<BaseQuery, gt>> : gt \in GTInputs } \cup
  { <<q, <<0, 1>> >> : q \in QueryConfigs \ {BaseQuery} }

\* a call's local field: one distinct value per local index
KindNo(kind) == CASE kind = "R" -> 1 [] kind = "A" -> 2 [] kind = "G" -> 3 [] OTHER -> 4
LocalLength(kind, call) ==
  LET n == Len(call.ALT) + 1
  IN  CASE kind = "R" -> n
        [] kind = "A" -> n - 1
        [] kind = "G" -> (n * (n + 1)) \div 2
        [] OTHER -> 0
LocalData(kind, row, call) ==
  [i \in 0..(LocalLength(kind, call) - 1) |-> 1000 * (row + 1) + 100 * KindNo(kind) + i]

\* ------------------------------------------------------------------- state
VARIABLES
  build,                       \* "debug": DEBUG defined, assertions on; "release": neither
  loaded,                      \* the variant as the caller handed it over
  variant,                     \* the variant the operations read and modify
  m_merged_reference_allele,
  m_merged_alt_alleles,
  m_NON_REF_exists,
  m_alleles_LUT,
  copy,                        \* m_variants.back() of GA4GHOperator
  output,                      \* what do_dummy_genotyping computed and wrote
  refs_read,                   \* the REFs merge_reference_allele iterated over
  lut_adds,                    \* the add_input_merged_idx_pair calls of the last merge
  before_clear,                \* what the run held when clear() was called
  hist,                        \* clean: no run left merged strings in the members;
                               \* started_clean: so it was when the last run began;
                               \* loaded_from: the status the position was loaded in
  last_op,
  status,
  npos

vars == << build, loaded, variant, m_merged_reference_allele, m_merged_alt_alleles,
           m_NON_REF_exists, m_alleles_LUT, copy, output, refs_read, lut_adds,
           before_clear, hist, last_op, status, npos >>

DEBUG == build = "debug"
asserts_on == build = "debug"

\* how a merge goes on after an add_input_merged_idx_pair outside the table:
\* with assertions the table's bounds check ends the process; without them the
\* write is outside the table's storage, and the process is killed or goes on
LutWriteOutcomes(oob) ==
  IF ~oob THEN {"ok"}
  ELSE IF asserts_on THEN {"lut_assert_failed"}
  ELSE {"lut_crashed", "ok"}

NoVariant == [column_begin |-> 0, calls |-> << >>]
NoCopy == [fields |-> << >>, counts |-> << >>, query |-> << >>, input_GT |-> << >>,
           common |-> << >>]
NoOutput == [position |-> 0, ref |-> << >>, alts |-> << >>, medians |-> << >>,
             lut |-> NewLUT(0, 0), nonref |-> FALSE, counts |-> << >>, matrix |-> << >>]

\* no run was cleared yet at this position
NoRun == [op |-> "none", ref |-> << >>, alts |-> << >>, nonref |-> FALSE, lut |-> NewLUT(0, 0), started_clean |-> TRUE]

Init ==
  /\ build \in {"debug", "release"}
  /\ loaded = NoVariant
  /\ variant = NoVariant
  /\ m_merged_reference_allele = << >>
  /\ m_merged_alt_alleles = << >>
  /\ m_NON_REF_exists = FALSE
  /\ m_alleles_LUT = NewLUT(0, 0)
  /\ copy = NoCopy
  /\ output = NoOutput
  /\ refs_read = << >>
  /\ lut_adds = << >>
  /\ before_clear = NoRun
  /\ hist = [clean |-> TRUE, started_clean |-> TRUE, loaded_from |-> "init"]
  /\ last_op = "none"
  /\ status = "init"
  /\ npos = 0

\* the caller hands the next position's variant to the operator; copy, output
\* and refs_read describe the current position and start empty for it
Load(v) ==
  /\ loaded' = v
  /\ variant' = v
  /\ status' = "loaded"
  /\ npos' = npos + 1
  /\ last_op' = "load"
  /\ copy' = NoCopy
  /\ output' = NoOutput
  /\ refs_read' = << >>
  /\ before_clear' = NoRun
  /\ hist' = [hist EXCEPT !.loaded_from = status]
  /\ UNCHANGED << build, m_merged_reference_allele, m_merged_alt_alleles, m_NON_REF_exists,
                  m_alleles_LUT, lut_adds >>

LoadVariant ==
  /\ status = "init"
  /\ \E v \in Variants(npos + 1) : Load(v)

\* successive positions handed to the same operator object
LoadNextVariant ==
  /\ status \in {"init", "done", "cleared"}
  /\ npos < MaxPositions
  /\ \E v \in SeqVariants(npos + 1) : Load(v)

\* the REF strings the range-for over valid calls yields
RECURSIVE ValidRefs(_, _)
ValidRefs(calls, k) ==
  IF k > Len(calls) THEN << >>
  ELSE (IF calls[k].valid THEN << calls[k].REF >> ELSE << >>) \o ValidRefs(calls, k + 1)

\* ------------------------------------------ SingleVariantOperatorBase
\* operate: merged REF, table sized to the calls, merged ALT moved to the member
BaseOperate(v, merged_reference_allele, alleles_LUT, debug) ==
  LET r == merge_reference_allele(ValidRefs(v.calls, 1), merged_reference_allele, debug)
      sized == resize_luts_if_needed(alleles_LUT, Len(v.calls), DefaultNumColumns)
      a == merge_alt_alleles(v.calls, r.merged, sized)
  IN  [ threw |-> r.threw, ref |-> r.merged, alt |-> a.merged, nonref |-> a.nonref,
        lut |-> a.lut, oob |-> a.oob, adds |-> a.adds ]

Operate ==
  /\ status \in {"loaded", "cleared"}
  /\ \E o \in { BaseOperate(variant, m_merged_reference_allele, m_alleles_LUT, DEBUG) } :
         /\ refs_read' = ValidRefs(variant.calls, 1)
         /\ m_merged_reference_allele' = o.ref
         /\ IF o.threw
            THEN /\ status' = "invalid_argument"
                 /\ UNCHANGED << m_merged_alt_alleles, m_NON_REF_exists, m_alleles_LUT, lut_adds >>
            ELSE /\ lut_adds' = o.adds
                 /\ \E outcome \in LutWriteOutcomes(o.oob) :
                      IF outcome = "ok"
                      THEN /\ status' = "done"
                           /\ m_merged_alt_alleles' = o.alt
                           /\ m_NON_REF_exists' = o.nonref
                           /\ m_alleles_LUT' = o.lut
                      ELSE /\ status' = outcome
                           /\ UNCHANGED << m_merged_alt_alleles, m_NON_REF_exists,
                                           m_alleles_LUT >>
  /\ last_op' = "operate"
  /\ hist' = [hist EXCEPT !.clean = FALSE, !.started_clean = hist.clean]
  /\ UNCHANGED << build, loaded, variant, copy, output, before_clear, npos >>

\* the merged output of the run that just completed, wherever it left it
RunResult ==
  [ op |-> last_op,
    ref |-> IF last_op = "dummy" THEN output.ref
            ELSE IF last_op = "ga4gh" THEN copy.common[1]
            ELSE m_merged_reference_allele,
    alts |-> IF last_op = "dummy" THEN output.alts
             ELSE IF last_op = "ga4gh" THEN copy.common[2]
             ELSE m_merged_alt_alleles,
    nonref |-> IF last_op = "dummy" THEN output.nonref ELSE m_NON_REF_exists,
    lut |-> IF last_op = "dummy" THEN output.lut ELSE m_alleles_LUT,
    started_clean |-> hist.started_clean ]

\* clear: the table's entries, the merged REF and the merged ALT list
Clear ==
  /\ status = "done"
  /\ before_clear' = RunResult
  /\ hist' = [hist EXCEPT !.clean = TRUE]
  /\ m_alleles_LUT' = reset_luts(m_alleles_LUT)
  /\ m_merged_reference_allele' = << >>
  /\ m_merged_alt_alleles' = << >>
  /\ status' = "cleared"
  /\ last_op' = "clear"
  /\ UNCHANGED << build, loaded, variant, m_NON_REF_exists, copy, output, refs_read,
                  lut_adds, npos >>

\* ------------------------------------------------------- GA4GHOperator
\* get_num_elements_for_known_field_enum(#ALT alleles, 0)
FieldSize(kind, num_merged_alleles) ==
  CASE kind = "R" -> num_merged_alleles
    [] kind = "A" -> num_merged_alleles - 1
    [] kind = "G" -> (num_merged_alleles * (num_merged_alleles + 1)) \div 2
    [] OTHER -> 0

\* std::vector::resize on the copy's field
Resized(data, field_size) ==
  [j \in 0..(field_size - 1) |-> IF j \in DOMAIN data THEN data[j] ELSE 0]

\* copy_from_variant: every field of every call as it is in the variant
CopyFields(v, query, input_GT) ==
  [f \in 1..Len(query) |->
     [row \in 0..(Len(v.calls) - 1) |->
        [ dest |-> IF ~v.calls[row + 1].valid THEN << >>
                   ELSE IF query[f].kind = "GT" THEN input_GT
                   ELSE LocalData(query[f].kind, row, v.calls[row + 1]),
          log |-> << >> ]]]

\* REMAP_MACRO for one call; the default case of the switch ends the process
RemapCallField(g, f, fld, row, call, alleles_LUT, num_merged_alleles, NON_REF_exists, asserts) ==
  IF fld.type = "unhandled"
  THEN [g EXCEPT !.fields[f][row].dest =
                   Resized(g.fields[f][row].dest, FieldSize(fld.kind, num_merged_alleles)),
                 !.status = "exited"]
  ELSE
    LET st0 == [ dest |-> Resized(g.fields[f][row].dest, FieldSize(fld.kind, num_merged_alleles)),
                 counts |-> g.counts[f],
                 log |-> << >>,
                 overrun |-> FALSE ]
        input_data == LocalData(fld.kind, row, call)
        st1 == IF fld.kind = "G"
               THEN remap_data_based_on_genotype(st0, input_data, row, alleles_LUT,
                      num_merged_alleles, NON_REF_exists, bcf_int32_missing, asserts)
               ELSE remap_data_based_on_alleles(st0, input_data, row, alleles_LUT,
                      num_merged_alleles, NON_REF_exists, fld.kind = "A", bcf_int32_missing,
                      asserts)
    IN  [g EXCEPT !.fields[f][row] = [dest |-> st1.dest, log |-> st1.log],
                  !.counts[f] = st1.counts,
                  !.status = IF Aborted(st1, asserts) THEN "assert_failed" ELSE "ok",
                  !.overrun = g.overrun \/ st1.overrun]

\* the GT branch for one call
RemapCallGT(g, f, row, input_GT, alleles_LUT, asserts) ==
  LET r == remap_GT_field(input_GT, g.fields[f][row].dest, alleles_LUT, row, asserts)
  IN  [g EXCEPT !.fields[f][row].dest = r.out,
                !.status = IF r.failed THEN "assert_failed" ELSE "ok"]

RECURSIVE GA4GHRemapLoop(_, _, _, _, _, _, _, _, _)
GA4GHRemapLoop(g, f, fld, calls, k, alleles_LUT, num_merged_alleles, NON_REF_exists, asserts) ==
  IF k > Len(calls) \/ g.status # "ok" THEN g
  ELSE GA4GHRemapLoop(
         IF calls[k].valid
         THEN RemapCallField(g, f, fld, k - 1, calls[k], alleles_LUT,
                             num_merged_alleles, NON_REF_exists, asserts)
         ELSE g,
         f, fld, calls, k + 1, alleles_LUT, num_merged_alleles, NON_REF_exists, asserts)

RECURSIVE GA4GHGTLoop(_, _, _, _, _, _, _)
GA4GHGTLoop(g, f, calls, k, input_GT, alleles_LUT, asserts) ==
  IF k > Len(calls) \/ g.status # "ok" THEN g
  ELSE GA4GHGTLoop(
         IF calls[k].valid THEN RemapCallGT(g, f, k - 1, input_GT, alleles_LUT, asserts) ELSE g,
         f, calls, k + 1, input_GT, alleles_LUT, asserts)

\* body of the loop over the queried fields
GA4GHField(g, f, fld, calls, input_GT, alleles_LUT, num_merged_alleles, NON_REF_exists, asserts) ==
  IF fld.kind = "GT"
  THEN GA4GHGTLoop(g, f, calls, 1, input_GT, alleles_LUT, asserts)
  ELSE GA4GHRemapLoop(
         [g EXCEPT !.counts[f] =
            [j \in 0..(FieldSize(fld.kind, num_merged_alleles) - 1) |-> 0]],
         f, fld, calls, 1, alleles_LUT, num_merged_alleles, NON_REF_exists, asserts)

RECURSIVE GA4GHFieldLoop(_, _, _, _, _, _, _, _, _)
GA4GHFieldLoop(g, query, f, calls, input_GT, alleles_LUT, num_merged_alleles, NON_REF_exists, asserts) ==
  IF f > Len(query) \/ g.status # "ok" THEN g
  ELSE GA4GHFieldLoop(
         GA4GHField(g, f, query[f], calls, input_GT, alleles_LUT, num_merged_alleles,
                    NON_REF_exists, asserts),
         query, f + 1, calls, input_GT, alleles_LUT, num_merged_alleles,
         NON_REF_exists, asserts)

\* the field loop of GA4GHOperator::operate on the copy of the variant
GA4GHRemap(v, query, input_GT, alleles_LUT, merged_alt_alleles, NON_REF_exists, asserts) ==
  GA4GHFieldLoop([ fields |-> CopyFields(v, query, input_GT),
                   counts |-> [f \in 1..Len(query) |-> << >>],
                   status |-> "ok",
                   overrun |-> FALSE ],
                 query, 1, v.calls, input_GT, alleles_LUT,
                 Len(merged_alt_alleles) + 1, NON_REF_exists, asserts)

\* a string or vector that std::move gave away, kept by the source
MovedFrom_Kept(x) == x

\* what std::move leaves in the source string or vector: nothing
MovedFrom(x) == << >>

GA4GHOperate ==
  /\ status \in {"loaded", "cleared"}
  /\ \E o \in { BaseOperate(variant, m_merged_reference_allele, m_alleles_LUT, DEBUG) },
        run \in QueryRuns :
       \E query \in { run[1] }, input_GT \in { run[2] },
          g \in { GA4GHRemap(variant, run[1], run[2], o.lut, o.alt, o.nonref, asserts_on) } :
           /\ refs_read' = ValidRefs(variant.calls, 1)
           /\ IF o.threw
              THEN /\ status' = "invalid_argument"
                   /\ m_merged_reference_allele' = o.ref
                   /\ hist' = [hist EXCEPT !.clean = FALSE, !.started_clean = hist.clean]
                   /\ UNCHANGED << m_merged_alt_alleles, m_NON_REF_exists, m_alleles_LUT,
                                   lut_adds, copy >>
              ELSE /\ lut_adds' = o.adds
                   /\ \E outcome \in LutWriteOutcomes(o.oob) :
                        IF outcome # "ok"
                        THEN /\ status' = outcome
                             /\ m_merged_reference_allele' = o.ref
                             /\ hist' = [hist EXCEPT !.clean = FALSE,
                                                      !.started_clean = hist.clean]
                             /\ UNCHANGED << m_merged_alt_alleles, m_NON_REF_exists,
                                             m_alleles_LUT, copy >>
                        ELSE /\ m_NON_REF_exists' = o.nonref
                             /\ m_alleles_LUT' = o.lut
                             /\ hist' = [hist EXCEPT !.clean = (g.status = "ok"),
                                                      !.started_clean = hist.clean]
                             /\ IF g.status = "ok"
                                THEN \* REF and ALT are moved into the copy's common fields
                                     /\ status' = "done"
                                     /\ copy' = [ fields |-> g.fields, counts |-> g.counts,
                                                  query |-> query, input_GT |-> input_GT,
                                                  common |-> << o.ref, o.alt >> ]
                                     /\ m_merged_reference_allele' = MovedFrom(o.ref)
                                     /\ m_merged_alt_alleles' = MovedFrom(o.alt)
                                ELSE /\ status' = g.status
                                     /\ copy' = [ fields |-> g.fields, counts |-> g.counts,
                                                  query |-> query, input_GT |-> input_GT,
                                                  common |-> << >> ]
                                     /\ m_merged_reference_allele' = o.ref
                                     /\ m_merged_alt_alleles' = o.alt
  /\ last_op' = "ga4gh"
  /\ UNCHANGED << build, loaded, variant, output, before_clear, npos >>

\* ------------------------------------------------------ do_dummy_genotyping
\* REF of a call that began before the position is not valid: set it to "N"
modify_reference_if_in_middle(curr_call, current_start_position) ==
  IF curr_call.column_begin < current_start_position
  THEN [curr_call EXCEPT !.REF = N_REF]
  ELSE curr_call

ModifyValidCalls(v) ==
  [v EXCEPT !.calls =
     [k \in 1..Len(v.calls) |->
        IF v.calls[k].valid
        THEN modify_reference_if_in_middle(v.calls[k], v.column_begin)
        ELSE v.calls[k]]]

\* the loop that remaps PL of every valid call into remapped_PLs;
\* st = [matrix, counts], one matrix column (here: row) per call
RECURSIVE RemapPLLoop(_, _, _, _, _, _, _)
RemapPLLoop(st, calls, k, alleles_LUT, num_merged_alleles, NON_REF_exists, asserts) ==
  IF Aborted(st, asserts) \/ k > Len(calls) THEN st
  ELSE
    LET r == remap_data_based_on_genotype(
               [dest |-> st.matrix[k - 1], counts |-> st.counts, log |-> << >>,
                overrun |-> FALSE],
               LocalData("G", k - 1, calls[k]), k - 1, alleles_LUT,
               num_merged_alleles, NON_REF_exists, bcf_int32_missing, asserts)
    IN  RemapPLLoop(
          IF calls[k].valid
          THEN [matrix |-> [st.matrix EXCEPT ![k - 1] = r.dest], counts |-> r.counts,
                overrun |-> r.overrun]
          ELSE st,
          calls, k + 1, alleles_LUT, num_merged_alleles, NON_REF_exists, asserts)

\* std::nth_element(..., begin + k, ..., greater) followed by [k]
KthLargest(values, k) ==
  CHOOSE x \in { values[r] : r \in DOMAIN values } :
    /\ Cardinality({ r \in DOMAIN values : values[r] > x }) <= k
    /\ Cardinality({ r \in DOMAIN values : values[r] >= x }) > k

MedianVector(matrix, counts, num_gts) ==
  [i \in 0..(num_gts - 1) |->
     IF counts[i] = 0 THEN bcf_int32_missing
     ELSE KthLargest([r \in DOMAIN matrix |-> matrix[r][i]], counts[i] \div 2)]

\* everything do_dummy_genotyping computes from the (modified) variant
DummyGenotype(v, debug, asserts) ==
  LET r == merge_reference_allele(ValidRefs(v.calls, 1), << >>, debug)
      a == merge_alt_alleles(v.calls, r.merged, NewLUT(Len(v.calls), DefaultNumColumns))
      num_merged_alleles == Len(a.merged) + 1
      num_gts == (num_merged_alleles * (num_merged_alleles + 1)) \div 2
      pl == RemapPLLoop(
              [ matrix |-> [row \in 0..(Len(v.calls) - 1) |->
                              [i \in 0..(num_gts - 1) |-> bcf_int32_missing]],
                counts |-> [i \in 0..(num_gts - 1) |-> 0],
                overrun |-> FALSE ],
              v.calls, 1, a.lut, num_merged_alleles, a.nonref, asserts)
  IN  [ threw |-> r.threw, oob |-> a.oob, adds |-> a.adds, overrun |-> pl.overrun,
        out |-> [ position |-> v.column_begin, ref |-> r.merged, alts |-> a.merged,
                  medians |-> MedianVector(pl.matrix, pl.counts, num_gts),
                  lut |-> a.lut, nonref |-> a.nonref,
                  counts |-> pl.counts, matrix |-> pl.matrix ] ]

DummyGenotyping ==
  /\ status \in {"loaded", "cleared"}
  /\ \E v \in { ModifyValidCalls(variant) } :
       \E d \in { DummyGenotype(v, DEBUG, asserts_on) } :
         /\ variant' = v
         /\ refs_read' = ValidRefs(v.calls, 1)
         /\ IF d.threw
            THEN /\ status' = "invalid_argument"
                 /\ UNCHANGED << output, lut_adds >>
            ELSE /\ lut_adds' = d.adds
                 /\ \E outcome \in LutWriteOutcomes(d.oob) :
                      IF outcome = "ok"
                      THEN /\ status' = IF d.overrun /\ asserts_on
                                        THEN "assert_failed" ELSE "done"
                           /\ output' = d.out
                      ELSE /\ status' = outcome
                           /\ UNCHANGED output
  /\ last_op' = "dummy"
  /\ hist' = [hist EXCEPT !.started_clean = TRUE]
  /\ UNCHANGED << build, loaded, m_merged_reference_allele, m_merged_alt_alleles,
                  m_NON_REF_exists, m_alleles_LUT, copy, before_clear, npos >>


\* one position, every kind of variant
Next == LoadVariant \/ Operate \/ GA4GHOperate \/ DummyGenotyping

Spec == Init /\ [][Next]_vars

\* several positions with one operator object, with or without clear in between
NextSeq == LoadNextVariant \/ Operate \/ GA4GHOperate \/ DummyGenotyping \/ Clear

SpecSeq == Init /\ [][NextSeq]_vars

\* ----------------------------------------------------------- observations
\* a run of an orchestrator got past merge_reference_allele
MergeRan ==
  /\ last_op \in {"operate", "ga4gh", "dummy"}
  /\ status \in {"done", "exited", "assert_failed"}

\* where the run left the merged reference: the member, the copy's common
\* field it was moved to, or the line do_dummy_genotyping wrote
MergedRef ==
  IF last_op = "dummy" THEN output.ref
  ELSE IF last_op = "ga4gh" /\ status = "done" THEN copy.common[1]
  ELSE m_merged_reference_allele

MergedAlts ==
  IF last_op = "dummy" THEN output.alts
  ELSE IF last_op = "ga4gh" /\ status = "done" THEN copy.common[2]
  ELSE m_merged_alt_alleles

MergedLUT == IF last_op = "dummy" THEN output.lut ELSE m_alleles_LUT

MergedNonRef == IF last_op = "dummy" THEN output.nonref ELSE m_NON_REF_exists

\* the shorter of any two real (non-"N") references is a prefix of the longer
PrefixComparable(refs) ==
  \A i, j \in 1..Len(refs) :
    (refs[i] # N_REF /\ refs[j] # N_REF)
      => (IsPrefix(refs[i], refs[j]) \/ IsPrefix(refs[j], refs[i]))

\* the merged reference is as long as every reference read, and every real
\* reference read is a prefix of it
CoversEveryRef(merged, refs) ==
  \A k \in 1..Len(refs) :
    /\ Len(merged) >= Len(refs[k])
    /\ (refs[k] # N_REF => IsPrefix(refs[k], merged))

\* the references read all describe the position: a call that began before
\* it carries "N"
RefsAnchoredAtPosition ==
  \A k \in 1..Len(variant.calls) :
    (variant.calls[k].valid /\ variant.calls[k].column_begin < variant.column_begin)
      => variant.calls[k].REF = N_REF

\* ------------------------------------------------------------------ claims
\* C1 as stated: for all sets of reference strings of the valid calls at a
\* position, after merge_reference_allele ran over them from an empty merged
\* reference, the merged reference is at least as long as every call's
\* reference and every call's reference other than "N" is a prefix of it.
C1_AnyRefsCovered ==
  (MergeRan /\ RefsAnchoredAtPosition) => CoversEveryRef(MergedRef, refs_read)

\* C1 amended: the same, provided the real references are pairwise
\* prefix-comparable; a DEBUG build enforces that by throwing instead of
\* completing, a build without DEBUG merges whatever it is given.
C1_ComparableRefsCovered ==
  (MergeRan /\ RefsAnchoredAtPosition /\ (DEBUG \/ PrefixComparable(refs_read)))
    => CoversEveryRef(MergedRef, refs_read)

\* C1 witness: an "N" reference and two real references of different length
\* were merged into the longer one
C1_Witness ==
  /\ MergeRan
  /\ RefsAnchoredAtPosition
  /\ Len(refs_read) = 2
  /\ refs_read[1] = N_REF
  /\ refs_read[2] = <<"T", "G">>
  /\ MergedRef = <<"T", "G">>

\* ---- helpers of the claims about merge_alt_alleles
ValidRows == { k \in 1..Len(variant.calls) : variant.calls[k].valid }

ListsNonRef(call) == \E i \in 1..Len(call.ALT) : call.ALT[i] = g_non_reference_allele

\* what the claim calls the allele after padding, written out character by
\* character: the allele, then the merged reference from the call's REF length on
PaddedAlt(call, i, merged_ref) ==
  LET a == call.ALT[i]
      extra == IF Len(call.REF) < Len(merged_ref) THEN Len(merged_ref) - Len(call.REF) ELSE 0
  IN  IF a = g_non_reference_allele THEN a
      ELSE [c \in 1..(Len(a) + extra) |->
              IF c <= Len(a) THEN a[c] ELSE merged_ref[Len(call.REF) + (c - Len(a))]]

\* C2: if any valid call lists the placeholder allele, it occurs exactly once
\* in the merged alt list, at the final index, wherever the calls list it, and
\* every call that lists it has that local index mapped to the final index.
C2_NonRefLast ==
  (MergeRan /\ \E k \in ValidRows : ListsNonRef(variant.calls[k]))
    => LET last == Len(MergedAlts)
       IN  /\ last >= 1
           /\ MergedAlts[last] = g_non_reference_allele
           /\ \A j \in 1..(last - 1) : MergedAlts[j] # g_non_reference_allele
           /\ \A k \in ValidRows : \A i \in 1..Len(variant.calls[k].ALT) :
                variant.calls[k].ALT[i] = g_non_reference_allele
                  => /\ get_merged_idx_for_input(MergedLUT, k - 1, i) = last
                     /\ get_input_idx_for_merged(MergedLUT, k - 1, last) = i

\* C2 witness: a call lists the placeholder first, before an ordinary allele,
\* and the placeholder still ends up behind two ordinary merged alleles
C2_Witness ==
  /\ MergeRan
  /\ Len(MergedAlts) = 3
  /\ \E k \in ValidRows :
       /\ Len(variant.calls[k].ALT) = 2
       /\ variant.calls[k].ALT[1] = g_non_reference_allele
       /\ get_merged_idx_for_input(MergedLUT, k - 1, 1) = 3

\* C3: the merged alt list holds no string twice, and two (call, local index)
\* pairs whose alleles are equal after padding map to the same merged index.
C3_Deduplicated ==
  MergeRan
    => /\ \A a, b \in 1..Len(MergedAlts) : a # b => MergedAlts[a] # MergedAlts[b]
       /\ \A k1, k2 \in ValidRows :
            \A i1 \in 1..Len(variant.calls[k1].ALT), i2 \in 1..Len(variant.calls[k2].ALT) :
              PaddedAlt(variant.calls[k1], i1, MergedRef) = PaddedAlt(variant.calls[k2], i2, MergedRef)
                => /\ get_merged_idx_for_input(MergedLUT, k1 - 1, i1) \in 1..Len(MergedAlts)
                   /\ get_merged_idx_for_input(MergedLUT, k1 - 1, i1)
                        = get_merged_idx_for_input(MergedLUT, k2 - 1, i2)

\* C3 witness: "G" of a call with REF "T" and "GG" of a call with REF "TG"
\* are one merged allele
C3_Witness ==
  /\ MergeRan
  /\ Len(variant.calls) >= 2
  /\ variant.calls[1].valid /\ variant.calls[2].valid
  /\ variant.calls[1].REF = <<"T">> /\ variant.calls[1].ALT = << <<"G">> >>
  /\ variant.calls[2].REF = <<"T", "G">> /\ variant.calls[2].ALT = << <<"G", "G">> >>
  /\ MergedAlts = << <<"G", "G">> >>
  /\ get_merged_idx_for_input(MergedLUT, 0, 1) = 1
  /\ get_merged_idx_for_input(MergedLUT, 1, 1) = 1

\* C4: every alt allele of a valid call is stored under its merged index as
\* the allele followed by the merged reference from the call's REF length to
\* the end when the call's REF is shorter than the merged reference, and
\* unaltered when it is the placeholder or the REF has the merged length.
C4_PaddedWithSuffix ==
  MergeRan
    => \A k \in ValidRows : \A i \in 1..Len(variant.calls[k].ALT) :
         LET m == get_merged_idx_for_input(MergedLUT, k - 1, i)
         IN  /\ m \in 1..Len(MergedAlts)
             /\ MergedAlts[m] = PaddedAlt(variant.calls[k], i, MergedRef)
             /\ (Len(variant.calls[k].REF) >= Len(MergedRef)
                   => MergedAlts[m] = variant.calls[k].ALT[i])

\* C4 witness: REFs "T" and "TG"; alt "G" of the "T" call is stored as "GG"
C4_Witness ==
  /\ MergeRan
  /\ MergedRef = <<"T", "G">>
  /\ \E k \in ValidRows :
       /\ variant.calls[k].REF = <<"T">>
       /\ variant.calls[k].ALT = << <<"G">>, g_non_reference_allele >>
       /\ MergedAlts[get_merged_idx_for_input(MergedLUT, k - 1, 1)] = <<"G", "G">>
       /\ MergedAlts[get_merged_idx_for_input(MergedLUT, k - 1, 2)] = g_non_reference_allele

\* C5: after merge_alt_alleles the merged-to-input entry of a call for merged
\* allele j is set exactly when j is the reference (0) or the call's own alt
\* list holds merged allele j; every other entry of the table, also in rows
\* and columns that earlier positions used or grew, is the missing value.
C5_OnlyOwnAllelesMapped ==
  MergeRan
    => \A r \in 0..(MergedLUT.num_rows - 1) : \A j \in 0..(MergedLUT.num_cols - 1) :
         (~is_missing_value(get_input_idx_for_merged(MergedLUT, r, j)))
           <=> /\ r + 1 \in ValidRows
               /\ \/ j = 0
                  \/ /\ j \in 1..Len(MergedAlts)
                     /\ \E i \in 1..Len(variant.calls[r + 1].ALT) :
                          PaddedAlt(variant.calls[r + 1], i, MergedRef) = MergedAlts[j]

\* C5 witness: at the second position, in a table whose columns an earlier
\* position grew, the placeholder is merged but one call does not list it
\* and has no entry for it
C5_Witness ==
  /\ MergeRan /\ last_op = "operate"
  /\ npos = 2
  /\ m_alleles_LUT.num_cols > DefaultNumColumns
  /\ m_NON_REF_exists
  /\ \E k \in ValidRows :
       /\ ~ListsNonRef(variant.calls[k])
       /\ is_missing_value(get_input_idx_for_merged(m_alleles_LUT, k - 1, Len(m_merged_alt_alleles)))
       /\ ~is_missing_value(get_input_idx_for_merged(m_alleles_LUT, k - 1, 1))

\* ---- helpers of the claims about the remapped fields of GA4GHOperator
GA4GHDone == last_op = "ga4gh" /\ status = "done"

FieldsOfKind(kinds) == { f \in 1..Len(copy.query) : copy.query[f].kind \in kinds }

\* local allele index under which the call lists the placeholder, or -1
LocalNonRefIdx(call) ==
  IF ListsNonRef(call)
  THEN CHOOSE i \in 1..Len(call.ALT) : call.ALT[i] = g_non_reference_allele
  ELSE -1

\* the local allele a merged allele resolves to: the table's entry, else the
\* call's placeholder, else none (-1)
ResolvedLocal(row, call, merged_idx) ==
  LET m == get_input_idx_for_merged(m_alleles_LUT, row, merged_idx)
  IN  IF ~is_missing_value(m) THEN m ELSE LocalNonRefIdx(call)

\* local allele index of the call's allele that is merged allele merged_idx,
\* found by comparing the strings; -1 if the call has no such allele
OwnLocalIdx(call, merged_idx) ==
  IF merged_idx = 0 THEN 0
  ELSE IF \E i \in 1..Len(call.ALT) : PaddedAlt(call, i, MergedRef) = MergedAlts[merged_idx]
       THEN CHOOSE i \in 1..Len(call.ALT) : PaddedAlt(call, i, MergedRef) = MergedAlts[merged_idx]
       ELSE -1

CoversMerged(call) == \A m \in 0..Len(MergedAlts) : OwnLocalIdx(call, m) # -1

\* C6: remap_data_based_on_alleles writes every slot of a call's per-allele
\* field exactly once: the local value at the local allele the table maps the
\* slot's merged allele to, else the local value at the call's placeholder,
\* else the missing value; ALT-only fields are shifted by one on both sides.
\* A call whose alleles cover the merged list gets its own value per allele.
C6_AlleleFieldRemapped ==
  GA4GHDone
    => \A f \in FieldsOfKind({"R", "A"}) : \A k \in ValidRows :
         LET row == k - 1
             call == variant.calls[k]
             alt_only == copy.query[f].kind = "A"
             size == IF alt_only THEN Len(MergedAlts) ELSE Len(MergedAlts) + 1
             cell == copy.fields[f][row]
             data == LocalData(copy.query[f].kind, row, call)
         IN  /\ DOMAIN cell.dest = 0..(size - 1)
             /\ Len(cell.log) = size
             /\ \A j \in 0..(size - 1) :
                  LET m == IF alt_only THEN j + 1 ELSE j
                      loc == ResolvedLocal(row, call, m)
                      expected == IF loc = -1 THEN bcf_int32_missing
                                  ELSE data[IF alt_only THEN loc - 1 ELSE loc]
                  IN  /\ cell.dest[j] = expected
                      /\ Cardinality({ w \in 1..Len(cell.log) : cell.log[w].slot = j }) = 1
                      /\ CoversMerged(call)
                           => cell.dest[j] =
                                data[IF alt_only THEN OwnLocalIdx(call, m) - 1
                                     ELSE OwnLocalIdx(call, m)]

\* C6 witness: in an ALT-only field one call gets, for a merged allele it does
\* not have, the value of its placeholder, and a call without the placeholder
\* gets the missing value
C6_Witness ==
  /\ GA4GHDone
  /\ \E f \in FieldsOfKind({"A"}) : \E k1, k2 \in ValidRows : \E m1, m2 \in 1..Len(MergedAlts) :
       /\ OwnLocalIdx(variant.calls[k1], m1) = -1
       /\ LocalNonRefIdx(variant.calls[k1]) = 2
       /\ copy.fields[f][k1 - 1].dest[m1 - 1] = LocalData("A", k1 - 1, variant.calls[k1])[1]
       /\ OwnLocalIdx(variant.calls[k2], m2) = -1
       /\ ~ListsNonRef(variant.calls[k2])
       /\ copy.fields[f][k2 - 1].dest[m2 - 1] = bcf_int32_missing

\* C7: remap_data_based_on_genotype writes the slot j + k(k+1)/2 of every
\* unordered pair j <= k of merged alleles exactly once: the local value at
\* the canonical index of the two resolved local alleles, whichever of them
\* is larger, or the missing value when either allele resolves to nothing.
C7_GenotypeFieldRemapped ==
  GA4GHDone
    => \A f \in FieldsOfKind({"G"}) : \A row1 \in ValidRows :
         LET row == row1 - 1
             call == variant.calls[row1]
             n == Len(MergedAlts) + 1
             size == (n * (n + 1)) \div 2
             cell == copy.fields[f][row]
             data == LocalData("G", row, call)
         IN  /\ DOMAIN cell.dest = 0..(size - 1)
             /\ Len(cell.log) = size
             /\ \A k \in 0..(n - 1) : \A j \in 0..k :
                  LET slot == j + (k * (k + 1)) \div 2
                      pl == ResolvedLocal(row, call, j)
                      ql == ResolvedLocal(row, call, k)
                      lo == IF pl < ql THEN pl ELSE ql
                      hi == IF pl < ql THEN ql ELSE pl
                      expected == IF lo = -1 THEN bcf_int32_missing
                                  ELSE data[lo + (hi * (hi + 1)) \div 2]
                  IN  /\ cell.dest[slot] = expected
                      /\ Cardinality({ w \in 1..Len(cell.log) : cell.log[w].slot = slot }) = 1

\* C7 witness: a call lists two merged alleles in the opposite order, so the
\* smaller merged allele resolves to the larger local one, while the other
\* call has only one of them and holds the missing value for their pair
C7_Witness ==
  /\ GA4GHDone
  /\ Len(MergedAlts) = 3
  /\ \E f \in FieldsOfKind({"G"}) : \E k1, k2 \in ValidRows :
       /\ ResolvedLocal(k1 - 1, variant.calls[k1], 1) = 2
       /\ ResolvedLocal(k1 - 1, variant.calls[k1], 3) = 1
       /\ copy.fields[f][k1 - 1].dest[7] = LocalData("G", k1 - 1, variant.calls[k1])[4]
       /\ ResolvedLocal(k2 - 1, variant.calls[k2], 1) = 2
       /\ ResolvedLocal(k2 - 1, variant.calls[k2], 2) = 1
       /\ ResolvedLocal(k2 - 1, variant.calls[k2], 3) = -1
       /\ copy.fields[f][k2 - 1].dest[4] = LocalData("G", k2 - 1, variant.calls[k2])[4]
       /\ copy.fields[f][k2 - 1].dest[7] = bcf_int32_missing

\* ---- helpers of the claims about GA4GHOperator::operate as a whole
GA4GHRan == last_op = "ga4gh" /\ status \in {"done", "exited", "assert_failed"}

GTFields == { f \in 1..Len(copy.query) : copy.query[f].kind = "GT" }

\* C8: remap_GT_field stores for every entry the merged index the table gives
\* for input_GT[i]; an entry without a merged index makes the operation fail
\* with an error, and the missing value is never stored in output_GT.
C8_GTNeverStoresMissing ==
  (GA4GHRan /\ status # "exited")
    => \A f \in GTFields : \A k \in ValidRows :
         LET output_GT == copy.fields[f][k - 1].dest
         IN  /\ \A i \in 1..Len(output_GT) : ~is_missing_value(output_GT[i])
             /\ status = "done"
                  => \A i \in 1..Len(copy.input_GT) :
                       output_GT[i] = get_merged_idx_for_input(m_alleles_LUT, k - 1, copy.input_GT[i])
             /\ (\E i \in 1..Len(copy.input_GT) :
                   is_missing_value(get_merged_idx_for_input(m_alleles_LUT, k - 1, copy.input_GT[i])))
                  => status = "assert_failed"

\* C9: a queried allele-dependent field of an element type the switch does not
\* handle is skipped alone: the run is not ended, the other queried fields of
\* every valid call are remapped, and the merged REF and ALT are installed in
\* the copy.
C9_UnhandledTypeSkipsFieldOnly ==
  (GA4GHRan /\ \E u \in 1..Len(copy.query) : copy.query[u].type = "unhandled")
    => /\ status # "exited"
       /\ Len(copy.common) = 2
       /\ \A f \in FieldsOfKind({"R", "A", "G"}) : \A k \in ValidRows :
            copy.query[f].type # "unhandled"
              => Len(copy.fields[f][k - 1].log)
                   = FieldSize(copy.query[f].kind, Len(MergedAlts) + 1)

\* the REFs the claim expects the merge to read: "N" for a valid call that
\* starts before the position, the call's own REF otherwise
RECURSIVE ExpectedRefsRead(_, _, _)
ExpectedRefsRead(calls, pos, k) ==
  IF k > Len(calls) THEN << >>
  ELSE (IF ~calls[k].valid THEN << >>
        ELSE IF calls[k].column_begin < pos THEN << N_REF >>
        ELSE << calls[k].REF >>) \o ExpectedRefsRead(calls, pos, k + 1)

\* C10: in every run on a position, GA4GHOperator::operate as well as
\* do_dummy_genotyping, merge_reference_allele reads "N" for each valid call
\* that starts before the position and the call's own REF for the others.
C10_InMiddleRefReplaced ==
  (last_op \in {"ga4gh", "dummy"})
    => refs_read = ExpectedRefsRead(loaded.calls, loaded.column_begin, 1)

\* C11 as stated: a run on a position, clear(), and the same run again on
\* the same calls give the same merged reference, the same merged alt list in
\* the same order, the same placeholder flag and the same table entries.
C11_RerunAfterClearSame ==
  (MergeRan /\ status = "done" /\ before_clear.op = last_op)
    => /\ MergedRef = before_clear.ref
       /\ MergedAlts = before_clear.alts
       /\ MergedNonRef = before_clear.nonref
       /\ MergedLUT = before_clear.lut

\* ---- helpers of the claim about num_calls_with_valid_data
\* ResolvedLocal in the table of the run at hand
ResolvedIn(lut, row, call, merged_idx) ==
  LET m == get_input_idx_for_merged(lut, row, merged_idx)
  IN  IF ~is_missing_value(m) THEN m ELSE LocalNonRefIdx(call)

\* the valid calls that have a local value for a slot of a field of that kind
\* (slot = merged allele, shifted by one for ALT only, or the pair j <= k)
ContributorsAllele(lut, alt_only, slot) ==
  { k \in ValidRows :
      ResolvedIn(lut, k - 1, variant.calls[k], IF alt_only THEN slot + 1 ELSE slot) # -1 }

ContributorsPair(lut, j, k) ==
  { c \in ValidRows :
      /\ ResolvedIn(lut, c - 1, variant.calls[c], j) # -1
      /\ ResolvedIn(lut, c - 1, variant.calls[c], k) # -1 }

\* C12: once every valid call of the position is remapped, the counter of a
\* slot is the number of calls whose local value (mapped directly or through
\* the placeholder) was copied into it; a missing value written does not
\* count, and a slot with counter zero holds the missing value for every call.
C12_CountersCountCopiedValues ==
  /\ GA4GHDone
       => /\ \A f \in FieldsOfKind({"R", "A"}) :
               LET alt_only == copy.query[f].kind = "A"
                   size == IF alt_only THEN Len(MergedAlts) ELSE Len(MergedAlts) + 1
               IN  /\ DOMAIN copy.counts[f] = 0..(size - 1)
                   /\ \A slot \in 0..(size - 1) :
                        /\ copy.counts[f][slot]
                             = Cardinality(ContributorsAllele(m_alleles_LUT, alt_only, slot))
                        /\ copy.counts[f][slot] = 0
                             => \A c \in ValidRows :
                                  copy.fields[f][c - 1].dest[slot] = bcf_int32_missing
          /\ \A f \in FieldsOfKind({"G"}) :
               \A k \in 0..Len(MergedAlts) : \A j \in 0..k :
                 LET slot == j + (k * (k + 1)) \div 2
                 IN  /\ copy.counts[f][slot] = Cardinality(ContributorsPair(m_alleles_LUT, j, k))
                     /\ copy.counts[f][slot] = 0
                          => \A c \in ValidRows :
                               copy.fields[f][c - 1].dest[slot] = bcf_int32_missing
  /\ (last_op = "dummy" /\ status = "done")
       => \A k \in 0..Len(output.alts) : \A j \in 0..k :
            LET slot == j + (k * (k + 1)) \div 2
            IN  /\ output.counts[slot] = Cardinality(ContributorsPair(output.lut, j, k))
                /\ output.counts[slot] = 0
                     => \A row \in DOMAIN output.matrix :
                          output.matrix[row][slot] = bcf_int32_missing

\* C12 witness: two valid calls with one alt allele each, not the same; the
\* slot of the reference pair got a value from both, the slot of (0, 1) from
\* one, and the slot of the two alt alleles from neither
C12_Witness ==
  /\ GA4GHDone
  /\ Cardinality(ValidRows) = 2
  /\ Len(MergedAlts) = 2
  /\ \E f \in FieldsOfKind({"G"}) :
       /\ copy.counts[f][0] = 2
       /\ copy.counts[f][1] = 1
       /\ \E c \in ValidRows : copy.fields[f][c - 1].dest[1] = bcf_int32_missing
       /\ \E c \in ValidRows : copy.fields[f][c - 1].dest[1] # bcf_int32_missing
       /\ copy.counts[f][4] = 0
       /\ \A c \in ValidRows : copy.fields[f][c - 1].dest[4] = bcf_int32_missing

\* ---- helpers of the claim about successive positions
\* what an operator object that never ran produces from the position's calls
FreshOperate == BaseOperate(variant, << >>, NewLUT(0, 0), FALSE)

\* C13 as stated: whatever ran at earlier positions, with or without clear(),
\* the merged reference and alt list of a position are those a fresh operator
\* produces from the position's calls alone.
C13_NoCarryOver ==
  (MergeRan /\ last_op \in {"operate", "ga4gh"})
    => /\ MergedRef = FreshOperate.ref
       /\ MergedAlts = FreshOperate.alt

\* C13: a run that begins with no merged strings left in the members (fresh
\* operator, clear() called, or the previous run a GA4GHOperator::operate
\* that ran to its end and moved them out) produces the merged reference and
\* alt list of a fresh operator, whatever the table held before.
C13_NoCarryOverFromClean ==
  (MergeRan /\ last_op \in {"operate", "ga4gh"} /\ hist.started_clean)
    => /\ MergedRef = FreshOperate.ref
       /\ MergedAlts = FreshOperate.alt

\* C13 witness: GA4GHOperator::operate at the second position, no clear()
\* at this position, the table still as wide as the first position made it,
\* and a merged reference of one base
C13_Witness ==
  /\ GA4GHDone /\ hist.started_clean
  /\ npos = 2
  /\ hist.loaded_from = "done"
  /\ before_clear = NoRun
  /\ m_alleles_LUT.num_cols > DefaultNumColumns
  /\ Len(variant.calls) = 2
  /\ MergedRef = <<"T", "G">>
  /\ Len(MergedAlts) = 2

\* C14: at every add_input_merged_idx_pair call made by merge_alt_alleles, the
\* local allele index and the merged allele index are both strictly below the
\* translation table's column capacity at that moment, for every input: also
\* for a call that lists the placeholder before its other ALT alleles, and on
\* the already-seen path that adds a mapping without growing the table
C14_PairsWithinCapacity ==
  \A i \in DOMAIN lut_adds :
    /\ lut_adds[i].input_idx < lut_adds[i].num_cols
    /\ lut_adds[i].merged_idx < lut_adds[i].num_cols


====
